---- MODULE Spec2Model ----
(***************************************************************************)
(* The generation job orchestrator of the project generator: the request   *)
(* handlers of server/routes.ts, the in-memory storage of                  *)
(* server/storage.ts, the provider selection and the Google pipeline of    *)
(* server/services/ai.ts and the Azure pipeline of                         *)
(* server/services/azure-openai.ts.                                        *)
(*                                                                         *)
(* Scheduling.  The server is one Node.js event loop.  Every method of     *)
(* MemStorage is an async function without an await of its own, so the     *)
(* promise it returns is already settled when the caller awaits it and the *)
(* caller resumes from the microtask queue, before the event loop takes    *)
(* the next request, socket message or provider response.  The only places *)
(* where a job is suspended across event-loop turns are its two provider   *)
(* calls.  A job therefore runs in three atomic segments: admission up to  *)
(* the analysis call, the analysis reply up to the file-generation call,   *)
(* and the file-generation reply up to the end.                            *)
(*                                                                         *)
(* Storage.  MemStorage never rejects: Spec is the server on MemStorage.   *)
(* The handlers are written against the IStorage interface, whose methods  *)
(* return promises; FaultSpec is the server on a storage whose calls may   *)
(* reject, for the properties that speak of storage failures.              *)
(***************************************************************************)
EXTENDS Integers, Sequences, FiniteSets, TLC

(***************************************************************************)
(* Bounds of the model.                                                    *)
(***************************************************************************)
\* Number of chat messages posted with a role other than "user".
MaxNotes == 1
\* Longest well-formed file array a provider returns.
MaxFiles == 2
\* Number of storage calls of one segment that reject.
MaxFaults == 2

\* Project ids a request or a join_project message may name.
Subjects == {"p1", "p2"}
\* WebSocket connections.
Conns == {"c1", "c2"}
\* Paths a provider uses for its own files, in the order it lists them.
PathPool == <<"src/a.ts", "src/b.ts", "src/c.ts", "src/d.ts">>

\* JavaScript's undefined (or null) where a string is expected.
NoVal == "<undefined>"

(***************************************************************************)
(* Provider selection (services/ai.ts).                                    *)
(***************************************************************************)
Envs == [azureKey : BOOLEAN, azureEndpoint : BOOLEAN,
         geminiKey : BOOLEAN, googleAiKey : BOOLEAN]

hasAzure(e) == e.azureKey /\ e.azureEndpoint

hasGoogle(e) == e.geminiKey \/ e.googleAiKey

\* Mutant: asks for Google first.
getAIProviderGoogleFirst(e) ==
    IF hasGoogle(e) THEN "google" ELSE IF hasAzure(e) THEN "azure" ELSE "none"

\* Mutant: falls back to Google when nothing is configured.
getAIProviderDefaultsToGoogle(e) == IF hasAzure(e) THEN "azure" ELSE "google"

\* "none" stands for the thrown "No AI provider configured" error.
getAIProvider(e) ==
    IF hasAzure(e) THEN "azure" ELSE IF hasGoogle(e) THEN "google" ELSE "none"

\* AzureOpenAIService.client is set by the constructor iff key and endpoint are.
azureClient(e) == e.azureKey /\ e.azureEndpoint

(***************************************************************************)
(* Progress percentages handed to onProgress, per segment of the pipeline. *)
(***************************************************************************)
\* Mutant: the architecture step reports less than the analysis step.
GoogleProgressDrop(stage) ==
    CASE stage = "analyze"   -> <<10>>
      [] stage = "structure" -> <<5>>
      [] stage = "plan"      -> <<40>>
      [] stage = "finish"    -> <<60, 80, 95, 100>>

\* services/ai.ts: 10 before the analysis call, 25 after the analysis is
\* parsed, 40 before the file-generation call, the rest after its reply.
GoogleProgress(stage) ==
    CASE stage = "analyze"   -> <<10>>
      [] stage = "structure" -> <<25>>
      [] stage = "plan"      -> <<40>>
      [] stage = "finish"    -> <<60, 80, 95, 100>>

\* azure-openai.ts: 10 before the analysis call, 30 after the analysis is
\* parsed, 60 and 70 once the template is built, the rest after the reply.
AzureProgress(stage) ==
    CASE stage = "analyze"   -> <<10>>
      [] stage = "structure" -> <<30>>
      [] stage = "plan"      -> <<60, 70>>
      [] stage = "finish"    -> <<80, 90, 95, 100>>

Progress(provider, stage) ==
    IF provider = "azure" THEN AzureProgress(stage) ELSE GoogleProgress(stage)

(***************************************************************************)
(* Provider replies.  A reply to the analysis call is one of               *)
(*   "throw"   the call rejects (network, authentication)                  *)
(*   "empty"   no text                                                     *)
(*   "notjson" text that JSON.parse rejects                                *)
(*   "null"    the JSON text null                                          *)
(*   "noname"  a JSON object without projectName                           *)
(*   "named"   a JSON object with projectName "shop"                       *)
(***************************************************************************)
AnalysisReplies == {"throw", "empty", "notjson", "null", "noname", "named"}

\* The value JSON.parse gives for an analysis text.
ParsedAnalysis(reply) ==
    [isNull |-> reply = "null",
     projectName |-> IF reply = "named" THEN "shop" ELSE NoVal]

\* analysisData of the Azure catch block (azure-openai.ts, fallback analysis).
AzureFallbackAnalysis == [isNull |-> FALSE, projectName |-> "task-management-app"]

(***************************************************************************)
(* A reply to the file-generation call: the call rejects ("throw"), has no *)
(* text ("empty"), or carries a text: possibly wrapped in a ```json fence, *)
(* and either not JSON ("invalid"), or the JSON null, an object, or an     *)
(* array of items.  An item is null or a record whose path, content, type  *)
(* and language may each be absent.                                        *)
(***************************************************************************)
Item(p, c, t) == [isNull |-> FALSE, path |-> p, content |-> c, type |-> t,
                  language |-> NoVal]

NullItem == [isNull |-> TRUE, path |-> NoVal, content |-> NoVal, type |-> NoVal,
             language |-> NoVal]

Text(f, t, items) == [kind |-> "text", fenced |-> f, json |-> t, items |-> items]

Throw == [kind |-> "throw", fenced |-> FALSE, json |-> "invalid", items |-> <<>>]

Empty == [kind |-> "empty", fenced |-> FALSE, json |-> "invalid", items |-> <<>>]

\* The i-th record of a well-formed array: every second one has no type.
GoodItem(i) ==
    Item(PathPool[i], "body", IF i % 2 = 1 THEN NoVal ELSE "directory")

GoodArray(k) == [i \in 1..k |-> GoodItem(i)]

\* Well-formed replies: k >= 1 records, paths non-empty and pairwise distinct.
GoodReplies ==
    {Text(FALSE, "array", GoodArray(k)) : k \in 1..MaxFiles}
      \cup {Text(FALSE, "array", <<GoodItem(2), GoodItem(1)>>)}

BadReplies ==
    {Text(FALSE, "invalid", <<>>),
     Text(FALSE, "null", <<>>),
     Text(FALSE, "object", <<>>),
     Text(FALSE, "array", <<>>),
     Text(FALSE, "array", <<GoodItem(1), GoodItem(1)>>),
     Text(FALSE, "array", <<Item(NoVal, "body", "file")>>),
     Text(FALSE, "array", <<GoodItem(1), Item("", "body", NoVal)>>),
     Text(FALSE, "array", <<NullItem>>)}

FencedReplies == {Text(TRUE, "array", GoodArray(1))}

FileReplies == {Throw, Empty} \cup GoodReplies \cup BadReplies \cup FencedReplies

\* structureResponse.text || "[]"
OrEmptyArray(reply) ==
    IF reply.kind = "empty" THEN Text(FALSE, "array", <<>>) ELSE reply

\* replace(/```json\n?/g, '').replace(/```\n?/g, '').trim()
StripFences(text) == [text EXCEPT !.fenced = FALSE]

\* JSON.parse returns (TRUE) or throws a SyntaxError (FALSE).
JSONparses(text) == ~text.fenced /\ text.json # "invalid"

\* The callback of rawFiles.map, on an item that is not null.
MapFile(file) ==
    [path |-> file.path,
     content |-> file.content,
     type |-> IF file.type = NoVal \/ file.type = "" THEN "file" ELSE file.type,
     language |-> file.language]

\* rawFiles.map(...) returns (TRUE) or throws a TypeError (FALSE).
MapReturns(text) ==
    /\ text.json = "array"
    /\ \A i \in 1..Len(text.items) : ~text.items[i].isNull

MapFiles(text) == [i \in 1..Len(text.items) |-> MapFile(text.items[i])]

File(p, c, l) == [path |-> p, content |-> c, type |-> "file", language |-> l]

\* generateFallbackProject (services/ai.ts): content is the project name
\* where the file embeds it, "static" elsewhere.
generateFallbackProject(projectName) ==
    <<File("package.json", projectName, "json"),
      File("next.config.js", "static", "javascript"),
      File("tailwind.config.js", "static", "javascript"),
      File("app/globals.css", "static", "css"),
      File("app/layout.tsx", projectName, "typescript"),
      File("app/page.tsx", projectName, "typescript"),
      File("README.md", projectName, "markdown"),
      File("tsconfig.json", "static", "json")>>

\* AzureOpenAIService.generateTaskManagementFiles.
generateTaskManagementFiles(projectName) ==
    <<File("package.json", projectName, "json"),
      File("app/layout.tsx", projectName, "typescript"),
      File("app/globals.css", "static", "css"),
      File("app/page.tsx", projectName, "typescript"),
      File("components/TaskBoard.tsx", "static", "typescript"),
      File("components/TaskCard.tsx", "static", "typescript"),
      File("components/AddTaskForm.tsx", "static", "typescript"),
      File("store/taskStore.ts", "static", "typescript"),
      File("README.md", projectName, "markdown")>>

\* a || b on strings: the empty string and undefined are falsy.
Or(a, b) == IF a = NoVal \/ a = "" THEN b ELSE a

(***************************************************************************)
(* The decoding of the file-generation reply.  Each returns                *)
(* [ok, files, err]: ok = FALSE is an exception that leaves generateProject.*)
(***************************************************************************)
Returned(files) == [ok |-> TRUE, files |-> files, err |-> ""]

Thrown(err) == [ok |-> FALSE, files |-> <<>>, err |-> err]

\* services/ai.ts: the file-generation call and the try/catch after it.
GoogleFiles(reply, analysis) ==
    IF reply.kind = "throw" THEN Thrown("ProviderUnavailable")
    ELSE LET text == OrEmptyArray(reply) IN
         IF JSONparses(text) /\ MapReturns(text) THEN Returned(MapFiles(text))
         ELSE IF analysis.isNull THEN Thrown("TypeError")
         ELSE Returned(generateFallbackProject(Or(analysis.projectName, "my-app")))

\* azure-openai.ts: the try/catch around the second call; the template stays
\* unless the reply decodes to a non-empty array.
AzureFiles(reply, template) ==
    IF reply.kind = "throw" THEN Returned(template)
    ELSE LET text == StripFences(OrEmptyArray(reply)) IN
         IF ~JSONparses(text) THEN Returned(template)
         ELSE IF text.json = "array" /\ Len(text.items) > 0
              THEN IF MapReturns(text) THEN Returned(MapFiles(text))
                   ELSE Returned(template)
              ELSE Returned(template)

(***************************************************************************)
(* State.                                                                  *)
(***************************************************************************)
VARIABLES
    scope,      \* which inputs the behaviour draws (see Scopes); never changes
    env,        \* process.env, read by getAIProvider and the Azure constructor
    projects,   \* MemStorage.projects: id -> project (exists = FALSE: no entry)
    messages,   \* MemStorage.messages, in creation order
    clients,    \* wss.clients: connection -> [state, projectId, inbox]
    published,  \* per id, the broadcastToProject calls made so far, in order
    jobs,       \* the generateProjectAsync invocations, in admission order
    response    \* the HTTP response sent last

vars == <<scope, env, projects, messages, clients, published, jobs, response>>

NoProject == [exists |-> FALSE, status |-> "", files |-> <<>>, previewUrl |-> NoVal]

\* Partial<Project>: NoVal for a key the update does not carry.
Updates(status, hasFiles, files, previewUrl) ==
    [status |-> status, hasFiles |-> hasFiles, files |-> files,
     previewUrl |-> previewUrl]

\* Mutant: the files of an update are added to the stored files.
updateProjectMerges(ps, id, u) ==
    IF ~ps[id].exists THEN ps
    ELSE [ps EXCEPT ![id] =
            [exists |-> TRUE,
             status |-> IF u.status = NoVal THEN @.status ELSE u.status,
             files |-> IF u.hasFiles THEN @.files \o u.files ELSE @.files,
             previewUrl |-> IF u.previewUrl = NoVal THEN @.previewUrl
                            ELSE u.previewUrl]]

\* Mutant: the update is written to every stored project, not to id alone.
updateProjectEvery(ps, id, u) ==
    [k \in Subjects |->
        IF ~ps[k].exists THEN ps[k]
        ELSE [exists |-> TRUE,
              status |-> IF u.status = NoVal THEN ps[k].status ELSE u.status,
              files |-> IF u.hasFiles THEN u.files ELSE ps[k].files,
              previewUrl |-> IF u.previewUrl = NoVal THEN ps[k].previewUrl
                             ELSE u.previewUrl]]

\* MemStorage.updateProject: no entry, no write (and no error).
updateProject(ps, id, u) ==
    IF ~ps[id].exists THEN ps
    ELSE [ps EXCEPT ![id] =
            [exists |-> TRUE,
             status |-> IF u.status = NoVal THEN @.status ELSE u.status,
             files |-> IF u.hasFiles THEN u.files ELSE @.files,
             previewUrl |-> IF u.previewUrl = NoVal THEN @.previewUrl
                            ELSE u.previewUrl]]

\* MemStorage.getProject: NoProject stands for undefined.
getProject(ps, id) == ps[id]

Message(id, role, content, step, progress, files, error) ==
    [projectId |-> id, role |-> role, content |-> content,
     generationStep |-> step, progress |-> progress, files |-> files,
     error |-> error]

\* MemStorage.createMessage: appends, whether or not the project exists.
createMessage(ms, m) == Append(ms, m)

\* res.status(status).json(body) of the handler of route, called for id.
Response(route, id, status, body) ==
    [route |-> route, id |-> id, status |-> status, body |-> body]

NoResponse == Response(NoVal, NoVal, -1, NoVal)

\* What broadcast is called with; progress is -1 where the event has none.
Event(type, j, progress, status, error, project) ==
    [type |-> type, job |-> j, progress |-> progress, status |-> status,
     error |-> error, project |-> project]

(***************************************************************************)
(* Broadcast hub (routes.ts, broadcastToProject).                          *)
(***************************************************************************)
\* Mutant: a client that is already at 95% is not sent the 100% event.
SendsSkipFinal(client, projectId, ev) ==
    /\ client.state = "open"
    /\ client.projectId = projectId
    /\ ~(ev.type = "generation_progress" /\ ev.progress = 100)

\* Mutant: every open connection is sent the event, whatever it joined.
SendsAnyOpen(client, projectId, ev) == client.state = "open"

\* The test of the forEach body: readyState OPEN and the same projectId.
Sends(client, projectId, ev) ==
    /\ client.state = "open"
    /\ client.projectId = projectId

\* client.send: n is the position of the call among the calls for projectId.
Deliver(client, projectId, n, ev) ==
    IF Sends(client, projectId, ev)
    THEN [client EXCEPT !.inbox =
            Append(@, [projectId |-> projectId, n |-> n, ev |-> ev])]
    ELSE client

\* One broadcastToProject call per event of evs, in order.
RECURSIVE broadcastAll(_, _, _, _)
broadcastAll(cs, projectId, n, evs) ==
    IF evs = <<>> THEN cs
    ELSE broadcastAll([c \in Conns |-> Deliver(cs[c], projectId, n + 1, Head(evs))],
                      projectId, n + 1, Tail(evs))

\* The connections open and joined to projectId.
Joined(cs, projectId) ==
    {c \in Conns : cs[c].state = "open" /\ cs[c].projectId = projectId}

\* The record of the calls: each event with the connections joined at the call.
Published(log, cs, projectId, evs) ==
    log \o [i \in 1..Len(evs) |-> [ev |-> evs[i], to |-> Joined(cs, projectId)]]

(***************************************************************************)
(* The steps of generateProjectAsync (routes.ts), on the record            *)
(* w = [projects, messages, events, log, n, faults, thrown]: the storage   *)
(* as the job sees it, the broadcast calls it has made in the current      *)
(* segment, the calls of the segment (storage calls and broadcasts) in the *)
(* order they happen, the number of storage calls made, which of them      *)
(* reject, and the exception in flight ("" when there is none).            *)
(*                                                                         *)
(* The methods of IStorage return promises.  Those of MemStorage never     *)
(* reject (faults = {}); an implementation that talks to a database may    *)
(* reject any call, which the await turns into an exception.               *)
(***************************************************************************)
\* One call of a job: a storage method or broadcast, and what it carries.
Call(op, what, progress) == [op |-> op, what |-> what, progress |-> progress]

\* The job's view at the start of a segment.
Segment(ps, ms, faults) ==
    [projects |-> ps, messages |-> ms, events |-> <<>>, log |-> <<>>,
     n |-> 0, faults |-> faults, thrown |-> ""]

\* An awaited storage call: skipped when an exception is in flight, throws
\* when the promise rejects, otherwise has the effect done.
Await(w, what, progress, done) ==
    IF w.thrown # "" THEN w
    ELSE IF (w.n + 1) \in w.faults
    THEN [w EXCEPT !.n = @ + 1, !.thrown = "StorageError",
                   !.log = Append(@, Call("rejected", what, progress))]
    ELSE [done EXCEPT !.n = @ + 1]

WUpdate(w, id, u) ==
    Await(w, u.status, -1,
          [w EXCEPT !.projects = updateProject(@, id, u),
                    !.log = Append(@, Call("updateProject", u.status, -1))])

WMessage(w, m) ==
    Await(w, m.content, m.progress,
          [w EXCEPT !.messages = createMessage(@, m),
                    !.log = Append(@, Call("createMessage", m.content,
                                           m.progress))])

\* await storage.getProject(projectId)
WRead(w, id) ==
    Await(w, id, -1, [w EXCEPT !.log = Append(@, Call("getProject", id, -1))])

WEmit(w, ev) ==
    IF w.thrown # "" THEN w
    ELSE [w EXCEPT !.events = Append(@, ev),
                   !.log = Append(@, Call("broadcast", ev.type, ev.progress))]

\* The onProgress callback, once per percentage.
RECURSIVE WProgress(_, _, _)
WProgress(w, j, pcts) ==
    IF pcts = <<>> THEN w
    ELSE WProgress(WEmit(w, Event("generation_progress", j, Head(pcts), "", "",
                                  NoProject)),
                   j, Tail(pcts))

\* Mutant: the status is broadcast before it is stored.
BeginBroadcastsFirst(w, id, j) ==
    LET w1 == WEmit(w, Event("status_update", j, -1, "generating", "", NoProject))
        w2 == WUpdate(w1, id, Updates("generating", FALSE, <<>>, NoVal))
        w3 == WMessage(w2, Message(id, "assistant", "start", "analyzing", 0,
                                   <<>>, ""))
    IN  WEmit(w3, Event("message", j, 0, "", "", NoProject))

\* Status "generating", its broadcast, the start message and its broadcast.
Begin(w, id, j) ==
    LET w1 == WUpdate(w, id, Updates("generating", FALSE, <<>>, NoVal))
        w2 == WEmit(w1, Event("status_update", j, -1, "generating", "", NoProject))
        w3 == WMessage(w2, Message(id, "assistant", "start", "analyzing", 0,
                                   <<>>, ""))
    IN  WEmit(w3, Event("message", j, 0, "", "", NoProject))

\* What the catch block catches: the storage exception in flight, or the
\* exception cause that generateProject threw.
Caught(w, cause) == IF w.thrown # "" THEN w.thrown ELSE cause

\* Mutant: the catch block stores the status and broadcasts, without the
\* error message.
CatchSilent(w, id, j, cause) ==
    LET c == Caught(w, cause)
        w1 == WUpdate([w EXCEPT !.thrown = ""], id,
                      Updates("error", FALSE, <<>>, NoVal))
    IN  WEmit(w1, Event("generation_error", j, -1, "", c, NoProject))

\* The catch block: status "error", the error message, generation_error.
\* An exception in it leaves generateProjectAsync (thrown # "" in the result).
Catch(w, id, j, cause) ==
    LET c == Caught(w, cause)
        w1 == WUpdate([w EXCEPT !.thrown = ""], id,
                      Updates("error", FALSE, <<>>, NoVal))
        w2 == WMessage(w1, Message(id, "assistant", "error", NoVal, -1, <<>>, c))
    IN  WEmit(w2, Event("generation_error", j, -1, "", c, NoProject))

\* Mutant: the last progress callback runs after the completion broadcast.
CompleteThenProgress(w, id, j, files) ==
    LET w1 == WUpdate(w, id, Updates("ready", TRUE, files, NoVal))
        w2 == WMessage(w1, Message(id, "assistant", "complete", "complete", 100,
                                   files, ""))
        w3 == WRead(w2, id)
        w4 == WEmit(w3, Event("generation_complete", j, -1, "", "",
                              getProject(w3.projects, id)))
    IN  WEmit(w4, Event("generation_progress", j, 100, "", "", NoProject))

\* Mutant: the update that stores the files also clears previewUrl.
CompleteClearsPreview(w, id, j, files) ==
    LET w1 == WUpdate(w, id, Updates("ready", TRUE, files, "null"))
        w2 == WMessage(w1, Message(id, "assistant", "complete", "complete", 100,
                                   files, ""))
        w3 == WRead(w2, id)
    IN  WEmit(w3, Event("generation_complete", j, -1, "", "",
                        getProject(w3.projects, id)))

\* After generateProject returned: the files and status "ready" in one
\* update, the completion message, generation_complete with the re-read project.
Complete(w, id, j, files) ==
    LET w1 == WUpdate(w, id, Updates("ready", TRUE, files, NoVal))
        w2 == WMessage(w1, Message(id, "assistant", "complete", "complete", 100,
                                   files, ""))
        w3 == WRead(w2, id)
    IN  WEmit(w3, Event("generation_complete", j, -1, "", "",
                        getProject(w3.projects, id)))

NoAnalysis == [isNull |-> FALSE, projectName |-> NoVal]

\* The frame of one generateProjectAsync invocation.
NewJob(id, pre) ==
    [subject |-> id, pc |-> "admitted", provider |-> "none",
     analysis |-> NoAnalysis, raw |-> Empty, files |-> <<>>,
     outcome |-> "", err |-> "", events |-> <<>>, log |-> <<>>,
     calls |-> <<>>, pre |-> pre]

\* A segment has run: the storage it leaves, its broadcasts, the job's frame.
Commit(w, j, id, job) ==
    /\ projects' = w.projects
    /\ messages' = w.messages
    /\ clients' = broadcastAll(clients, id, Len(published[id]), w.events)
    /\ published' = [published EXCEPT ![id] = Published(@, clients, id, w.events)]
    /\ jobs' = LET after == [job EXCEPT !.events = @ \o w.events,
                                        !.log = @ \o w.log]
               IN  IF j > Len(jobs) THEN Append(jobs, after)
                   ELSE [jobs EXCEPT ![j] = after]

Failed(job, cause) == [job EXCEPT !.pc = "done", !.outcome = "error", !.err = cause]

\* The catch block threw: the promise of generateProjectAsync rejects unhandled.
Crashed(job, cause) ==
    [job EXCEPT !.pc = "done", !.outcome = "crashed", !.err = cause]

\* The try block threw: the catch block runs and the segment ends.
Fail(w, j, id, job, cause) ==
    LET w1 == Catch(w, id, j, cause) IN
    Commit(w1, j, id, IF w1.thrown = "" THEN Failed(job, Caught(w, cause))
                      ELSE Crashed(job, Caught(w, cause)))

(***************************************************************************)
(* Scopes.  The inputs of the handlers are drawn from sets that depend on  *)
(* the scope of the behaviour, so that each part of the input space is     *)
(* explored in depth without multiplying the others:                       *)
(*   "replies"  one job on one id, every provider reply, every             *)
(*              environment, chat notes, compile requests and the request  *)
(*              bodies that are answered 400                               *)
(*   "overlap"  two jobs on two ids, a few replies                         *)
(*   "hub"      one job, two connections joining, changing and leaving     *)
(*   "faults"   one job, one connection, storage calls that reject         *)
(***************************************************************************)
Scopes == {"replies", "overlap", "hub"}

\* The storage calls of one segment that reject: none with MemStorage.
ScopeFaults(sc) ==
    IF sc = "faults"
    THEN {F \in SUBSET (1..5) : Cardinality(F) <= MaxFaults}
    ELSE {{}}

AzureOnly == [azureKey |-> TRUE, azureEndpoint |-> TRUE,
              geminiKey |-> FALSE, googleAiKey |-> FALSE]

GoogleOnly == [azureKey |-> FALSE, azureEndpoint |-> FALSE,
               geminiKey |-> TRUE, googleAiKey |-> FALSE]

ScopeEnvs(sc) == IF sc = "replies" THEN Envs ELSE {AzureOnly, GoogleOnly}

\* Number of generateProjectAsync invocations in one behaviour.
JobLimit(sc) == IF sc = "overlap" THEN 2 ELSE 1

ScopeSubjects(sc) == IF sc = "overlap" THEN Subjects ELSE {"p1"}

ScopeConns(sc) ==
    IF sc = "hub" THEN Conns ELSE IF sc = "faults" THEN {"c1"} ELSE {}

CompileSubjects(sc) == IF sc \in {"replies", "faults"} THEN {"p1"} ELSE {}

ScopeRoles(sc) == IF sc = "replies" THEN {"user", "assistant"} ELSE {"user"}

\* Request bodies: those the handlers answer with 400 are drawn in "replies".
ScopePrompts(sc) ==
    IF sc = "replies" THEN {NoVal, "", "build a shop"} ELSE {"build a shop"}

ScopeValid(sc) == IF sc = "replies" THEN BOOLEAN ELSE {TRUE}

ScopeAnalysisReplies(sc) ==
    IF sc = "replies" THEN AnalysisReplies ELSE {"throw", "named"}

ScopeFileReplies(sc) ==
    IF sc = "replies" THEN FileReplies
    ELSE IF sc = "overlap"
    THEN {Text(FALSE, "array", GoodArray(k)) : k \in 1..MaxFiles}
    ELSE {Text(FALSE, "array", GoodArray(1))}

(***************************************************************************)
(* First segment: generateProjectAsync is called by a request handler and  *)
(* runs up to the analysis call.  ms is the message list the handler       *)
(* leaves, ack the response it sent before the call.                       *)
(***************************************************************************)
\* Mutant: a job is started for an id only if none was started for it before.
StartsOncePerSubject(id) == \A j \in 1..Len(jobs) : jobs[j].subject # id

\* Both handlers call generateProjectAsync without asking whether a job for
\* the id is running: nothing in routes.ts registers or releases a job.
Starts(id) == TRUE

Admit(id, ms, ack) ==
    /\ Starts(id)
    /\ Len(jobs) < JobLimit(scope)
    /\ \E faults \in ScopeFaults(scope) :
       LET j == Len(jobs) + 1
           job == [NewJob(id, getProject(projects, id)) EXCEPT
                      !.log = <<Call("respond", ack.route, -1)>>]
           w1 == Begin(Segment(projects, ms, faults), id, j)
           provider == getAIProvider(env)
       IN  IF w1.thrown # ""
           THEN Fail(w1, j, id, job, w1.thrown)
           ELSE IF provider = "none"
           THEN Fail(w1, j, id, job, "NoProviderConfigured")
           ELSE IF provider = "azure" /\ ~azureClient(env)
           THEN Fail(w1, j, id, [job EXCEPT !.provider = provider],
                     "AzureNotConfigured")
           ELSE Commit(WProgress(w1, j, Progress(provider, "analyze")), j, id,
                       [job EXCEPT !.pc = "analyzing", !.provider = provider,
                                   !.calls = <<provider>>])

(***************************************************************************)
(* Second segment: the analysis call settles.                              *)
(***************************************************************************)
\* azure-openai.ts: reply to analysisData, or the cause of the exception.
AzureAnalysis(reply) ==
    IF reply = "throw" THEN [ok |-> FALSE, analysis |-> NoAnalysis,
                             err |-> "ProviderUnavailable"]
    ELSE IF reply = "empty" THEN [ok |-> FALSE, analysis |-> NoAnalysis,
                                  err |-> "AnalysisEmpty"]
    ELSE IF reply = "notjson" THEN [ok |-> TRUE, analysis |-> AzureFallbackAnalysis,
                                    err |-> ""]
    ELSE [ok |-> TRUE, analysis |-> ParsedAnalysis(reply), err |-> ""]

\* services/ai.ts: JSON.parse(analysisResponse.text || "{}").
GoogleAnalysis(reply) ==
    IF reply = "throw" THEN [ok |-> FALSE, analysis |-> NoAnalysis,
                             err |-> "ProviderUnavailable"]
    ELSE IF reply = "notjson" THEN [ok |-> FALSE, analysis |-> NoAnalysis,
                                    err |-> "SyntaxError"]
    ELSE [ok |-> TRUE, analysis |-> ParsedAnalysis(reply), err |-> ""]

\* generateTaskManagementFiles(analysisData.projectName) throws a TypeError
\* when analysisData is null or has no projectName (toLowerCase of undefined).
TemplateThrows(analysis) == analysis.isNull \/ analysis.projectName = NoVal

AnalysisReturns(j, reply) ==
    /\ jobs[j].pc = "analyzing"
    /\ \E faults \in ScopeFaults(scope) :
       LET job == jobs[j]
           id == job.subject
           w0 == Segment(projects, messages, faults)
           a == IF job.provider = "azure" THEN AzureAnalysis(reply)
                ELSE GoogleAnalysis(reply)
           w1 == WProgress(w0, j, Progress(job.provider, "structure"))
           known == [job EXCEPT !.analysis = a.analysis]
       IN  IF ~a.ok
           THEN Fail(w0, j, id, job, a.err)
           ELSE IF job.provider = "azure" /\ TemplateThrows(a.analysis)
           THEN Fail(w1, j, id, known, "TypeError")
           ELSE Commit(WProgress(w1, j, Progress(job.provider, "plan")), j, id,
                       [known EXCEPT !.pc = "generating",
                                     !.calls = Append(@, job.provider)])

(***************************************************************************)
(* Third segment: the file-generation call settles; generateProject        *)
(* returns or throws; generateProjectAsync stores and broadcasts.          *)
(***************************************************************************)
\* The files generateProject decodes from the reply, or the exception.
Decode(provider, reply, analysis) ==
    IF provider = "azure"
    THEN AzureFiles(reply, generateTaskManagementFiles(analysis.projectName))
    ELSE GoogleFiles(reply, analysis)

\* The return statement of the Google path reads analysis.projectName.
ReturnThrows(provider, analysis) == provider = "google" /\ analysis.isNull

FilesReturn(j, reply) ==
    /\ jobs[j].pc = "generating"
    /\ \E faults \in ScopeFaults(scope) :
       LET job == [jobs[j] EXCEPT !.raw = reply]
           id == job.subject
           w0 == Segment(projects, messages, faults)
           r == Decode(job.provider, reply, job.analysis)
           w1 == WProgress(w0, j, Progress(job.provider, "finish"))
           w2 == Complete(w1, id, j, r.files)
       IN  IF ~r.ok
           THEN Fail(w0, j, id, job, r.err)
           ELSE IF ReturnThrows(job.provider, job.analysis)
           THEN Fail(w1, j, id, job, "TypeError")
           ELSE IF w2.thrown # ""
           THEN Fail(w2, j, id, job, w2.thrown)
           ELSE Commit(w2, j, id,
                       [job EXCEPT !.pc = "done", !.outcome = "complete",
                                   !.files = r.files])

(***************************************************************************)
(* Request handlers (routes.ts).                                           *)
(***************************************************************************)
\* POST /api/projects: randomUUID gives an id no project has.
POSTProject(id) ==
    /\ ~projects[id].exists
    /\ projects' = [projects EXCEPT ![id] =
                      [exists |-> TRUE, status |-> "generating", files |-> <<>>,
                       previewUrl |-> NoVal]]
    /\ response' = Response("projects", id, 200, "project")
    /\ UNCHANGED <<scope, env, messages, clients, published, jobs>>

\* Mutant: only a missing prompt is answered 400, an empty one is accepted.
POSTGenerateAcceptsEmpty(id, prompt) ==
    /\ IF prompt = NoVal
       THEN /\ response' = Response("generate", id, 400, "Prompt is required")
            /\ UNCHANGED <<projects, messages, clients, published, jobs>>
       ELSE LET ack == Response("generate", id, 200, "Generation started")
            IN  response' = ack /\ Admit(id, messages, ack)
    /\ UNCHANGED <<scope, env>>

\* POST /api/projects/:id/generate; an empty or missing prompt is answered
\* 400, any other with "Generation started" before generateProjectAsync is
\* called.
POSTGenerate(id, prompt) ==
    /\ IF prompt = "" \/ prompt = NoVal
       THEN /\ response' = Response("generate", id, 400, "Prompt is required")
            /\ UNCHANGED <<projects, messages, clients, published, jobs>>
       ELSE LET ack == Response("generate", id, 200, "Generation started")
            IN  response' = ack /\ Admit(id, messages, ack)
    /\ UNCHANGED <<scope, env>>

\* The chat messages posted with a role other than "user".
Notes(ms) ==
    Cardinality({i \in 1..Len(ms) : ms[i].content = "prompt" /\ ms[i].role # "user"})

\* Mutant: every stored message starts a job, whatever its role.
POSTMessageAnyRole(id, role, valid) ==
    /\ IF ~valid
       THEN /\ response' = Response("messages", id, 400, "Invalid message data")
            /\ UNCHANGED <<projects, messages, clients, published, jobs>>
       ELSE LET ms == createMessage(messages,
                          Message(id, role, "prompt", NoVal, -1, <<>>, ""))
                ack == Response("messages", id, 200, "message")
            IN  response' = ack /\ Admit(id, ms, ack)
    /\ UNCHANGED <<scope, env>>

\* POST /api/projects/:projectId/messages; valid: insertMessageSchema accepts.
POSTMessage(id, role, valid) ==
    /\ IF ~valid
       THEN /\ response' = Response("messages", id, 400, "Invalid message data")
            /\ UNCHANGED <<projects, messages, clients, published, jobs>>
       ELSE LET ms == createMessage(messages,
                          Message(id, role, "prompt", NoVal, -1, <<>>, ""))
                ack == Response("messages", id, 200, "message")
            IN  IF role = "user"
                THEN response' = ack /\ Admit(id, ms, ack)
                ELSE /\ Notes(messages) < MaxNotes
                     /\ messages' = ms
                     /\ response' = ack
                     /\ UNCHANGED <<projects, clients, published, jobs>>
    /\ UNCHANGED <<scope, env>>

PreviewUrl(id) == IF id = "p1" THEN "/preview/p1" ELSE "/preview/p2"

\* POST /api/projects/:id/compile; 404 when there is no such project.
POSTCompile(id) ==
    /\ projects' = updateProject(projects, id,
                                 Updates(NoVal, FALSE, <<>>, PreviewUrl(id)))
    /\ response' = IF getProject(projects, id).exists
                   THEN Response("compile", id, 200, PreviewUrl(id))
                   ELSE Response("compile", id, 404, "Project not found")
    /\ UNCHANGED <<scope, env, messages, clients, published, jobs>>

(***************************************************************************)
(* WebSocket server (routes.ts, wss.on('connection')).                     *)
(***************************************************************************)
Connect(c) ==
    /\ clients[c].state = "new"
    /\ clients' = [clients EXCEPT ![c].state = "open"]
    /\ UNCHANGED <<scope, env, projects, messages, published, jobs, response>>

\* Mutant: a join replays what was broadcast for the id so far.
JoinProjectReplays(c, id) ==
    /\ clients[c].state = "open"
    /\ clients' = [clients EXCEPT
          ![c].projectId = id,
          ![c].inbox = @ \o [n \in 1..Len(published[id]) |->
                               [projectId |-> id, n |-> n,
                                ev |-> published[id][n].ev]]]
    /\ UNCHANGED <<scope, env, projects, messages, published, jobs, response>>

\* A join_project message: the latest projectId replaces the earlier one.
JoinProject(c, id) ==
    /\ clients[c].state = "open"
    /\ clients' = [clients EXCEPT ![c].projectId = id]
    /\ UNCHANGED <<scope, env, projects, messages, published, jobs, response>>

Close(c) ==
    /\ clients[c].state = "open"
    /\ clients' = [clients EXCEPT ![c].state = "closed"]
    /\ UNCHANGED <<scope, env, projects, messages, published, jobs, response>>

AnalysisSettles(j, reply) ==
    AnalysisReturns(j, reply) /\ UNCHANGED <<scope, env, response>>

FilesSettle(j, reply) ==
    FilesReturn(j, reply) /\ UNCHANGED <<scope, env, response>>

(***************************************************************************)
(* Specification.                                                          *)
(***************************************************************************)
\* The server after registerRoutes: nothing stored, nobody connected.
Boot ==
    /\ env \in ScopeEnvs(scope)
    /\ projects = [id \in Subjects |-> NoProject]
    /\ messages = <<>>
    /\ clients = [c \in Conns |-> [state |-> "new", projectId |-> NoVal,
                                   inbox |-> <<>>]]
    /\ published = [id \in Subjects |-> <<>>]
    /\ jobs = <<>>
    /\ response = NoResponse

Init == scope \in Scopes /\ Boot

\* The server on a storage whose calls may reject.
FaultInit == scope = "faults" /\ Boot

Next ==
    \/ \E id \in ScopeSubjects(scope) : POSTProject(id)
    \/ \E id \in ScopeSubjects(scope), prompt \in ScopePrompts(scope) :
          POSTGenerate(id, prompt)
    \/ \E id \in ScopeSubjects(scope), role \in ScopeRoles(scope),
          valid \in ScopeValid(scope) :
          POSTMessage(id, role, valid)
    \/ \E id \in CompileSubjects(scope) : POSTCompile(id)
    \/ \E c \in ScopeConns(scope) : Connect(c)
    \/ \E c \in ScopeConns(scope), id \in Subjects : JoinProject(c, id)
    \/ \E c \in ScopeConns(scope) : Close(c)
    \/ \E j \in 1..Len(jobs), reply \in ScopeAnalysisReplies(scope) :
          AnalysisSettles(j, reply)
    \/ \E j \in 1..Len(jobs), reply \in ScopeFileReplies(scope) :
          FilesSettle(j, reply)

Spec == Init /\ [][Next]_vars

FaultSpec == FaultInit /\ [][Next]_vars

(***************************************************************************)
(* Vocabulary of the properties.                                           *)
(***************************************************************************)
JobIds == 1..Len(jobs)

IsProgress(e) == e.type = "generation_progress"

IsTerminal(e) == e.type \in {"generation_complete", "generation_error"}

\* The percentages of the progress events of a sequence of events, in order.
Percents(evs) ==
    LET p == SelectSeq(evs, IsProgress) IN [i \in 1..Len(p) |-> p[i].progress]

NonDecreasing(q) == \A i \in 1..(Len(q) - 1) : q[i] <= q[i + 1]

\* The events of job j that connection c was sent, in order.
Received(c, j) ==
    LET OfJob(x) == x.ev.job = j
        got == SelectSeq(clients[c].inbox, OfJob)
    IN  [i \in 1..Len(got) |-> got[i].ev]

InFlight(id) == {j \in JobIds : jobs[j].subject = id /\ jobs[j].pc # "done"}

\* Job j takes a step: it is admitted or one of its provider calls settles.
Steps(j) == j \in 1..Len(jobs') /\ (j > Len(jobs) \/ jobs'[j] # jobs[j])

\* Job j ends with the given outcome in this step.
Ends(j, outcome) ==
    /\ Steps(j)
    /\ jobs'[j].outcome = outcome
    /\ (j > Len(jobs) \/ jobs[j].outcome # outcome)

NonEmptyPath(f) == f.path # NoVal /\ f.path # ""

DistinctPaths(files) ==
    \A a, b \in 1..Len(files) : a # b => files[a].path # files[b].path

\* A file set as the parser is specified to return it.
ValidFiles(files) ==
    /\ Len(files) >= 1
    /\ \A i \in 1..Len(files) : NonEmptyPath(files[i])
    /\ DistinctPaths(files)

\* A reply that is a JSON array of k >= 1 records with non-empty, pairwise
\* distinct paths, not wrapped in a fence.
WellFormed(reply) ==
    /\ reply.kind = "text"
    /\ ~reply.fenced
    /\ reply.json = "array"
    /\ Len(reply.items) >= 1
    /\ \A i \in 1..Len(reply.items) :
          ~reply.items[i].isNull /\ NonEmptyPath(reply.items[i])
    /\ DistinctPaths(reply.items)

\* The records of a well-formed reply as files: type "file" where absent.
OwnFiles(reply) ==
    [i \in 1..Len(reply.items) |->
        [path |-> reply.items[i].path,
         content |-> reply.items[i].content,
         type |-> IF reply.items[i].type = NoVal THEN "file"
                  ELSE reply.items[i].type,
         language |-> reply.items[i].language]]

\* A submission for id that starts a new job.
AdmitsNew(id) ==
    /\ POSTGenerate(id, "build a shop")
    /\ Len(jobs') = Len(jobs) + 1
    /\ jobs'[Len(jobs')].subject = id
    /\ jobs'[Len(jobs')].events # <<>>

\* A reply whose text is not JSON at all, such as "not json".
NotJSON(reply) == reply.kind = "text" /\ ~reply.fenced /\ reply.json = "invalid"

\* A file reply that is present but is not an array of records.
Undecodable(reply) ==
    /\ reply.kind = "text"
    /\ ~reply.fenced
    /\ \/ reply.json # "array"
       \/ \E i \in 1..Len(reply.items) : reply.items[i].isNull

\* Analysis replies that are present but are not the expected object.
UndecodableAnalyses == {"notjson", "null", "noname"}

\* A well-formed file array wrapped in ```json ... ``` fences.
FencedWellFormed(reply) ==
    reply.fenced /\ WellFormed([reply EXCEPT !.fenced = FALSE])

\* The positions of a call in the calls of job j.
CallsAt(j, op, what, progress) ==
    {i \in 1..Len(jobs[j].log) : jobs[j].log[i] = Call(op, what, progress)}

\* The message log of a project: its messages in creation order.
MessagesOf(ms, id) ==
    LET OfProject(m) == m.projectId = id IN SelectSeq(ms, OfProject)

\* The createMessage calls of a job, in order.
Appends(job) ==
    LET IsAppend(c) == c.op = "createMessage" IN SelectSeq(job.log, IsAppend)

\* The positions of a call in the calls of a job.
LogAt(job, op, what, progress) ==
    {i \in 1..Len(job.log) : job.log[i] = Call(op, what, progress)}

\* The completion and error messages of a project, in creation order.
Terminals(ms, id) ==
    LET IsEnd(m) == m.content \in {"complete", "error"}
    IN  SelectSeq(MessagesOf(ms, id), IsEnd)

\* The completion messages of a project, in creation order.
Completions(ms, id) ==
    LET IsComplete(m) == m.content = "complete"
    IN  SelectSeq(MessagesOf(ms, id), IsComplete)

\* The jobs of a project.
JobsOf(id) == {j \in JobIds : jobs[j].subject = id}

(***************************************************************************)
(* C1.  For every id, at most one generation pipeline is in flight at any  *)
(* moment: a submission made while a job for the id has not reached its    *)
(* terminal state starts no second pipeline.                               *)
(***************************************************************************)
C1_AtMostOneInFlight == \A id \in Subjects : Cardinality(InFlight(id)) <= 1

(***************************************************************************)
(* C2.  Within one job the percentages of the progress events, as handed   *)
(* to the callback and as sent to each connection, never decrease and      *)
(* start at 0 or more; a job that ends successfully has emitted 100 last.  *)
(***************************************************************************)
C2_ProgressMonotone ==
    \A j \in JobIds :
        LET q == Percents(jobs[j].events) IN
        /\ NonDecreasing(q)
        /\ (q # <<>> => q[1] >= 0)
        /\ (jobs[j].outcome = "complete" => q # <<>> /\ q[Len(q)] = 100)
        /\ \A c \in Conns : NonDecreasing(Percents(Received(c, j)))

\* An Azure job has ended successfully and a connection saw its 100%.
C2_Witness ==
    \E j \in JobIds, c \in Conns :
        /\ jobs[j].provider = "azure"
        /\ jobs[j].outcome = "complete"
        /\ Len(Percents(Received(c, j))) >= 2
        /\ Percents(Received(c, j))[Len(Percents(Received(c, j)))] = 100

(***************************************************************************)
(* C3.  Whenever generateProject returns for a reply of the file call that *)
(* is not a well-formed file array (not JSON, not an array, empty, or with *)
(* a missing, empty or duplicate path), the file set it returns is         *)
(* non-empty and its paths are non-empty and pairwise distinct.            *)
(***************************************************************************)
C3_FallbackInvariant ==
    \A j \in JobIds :
        (/\ jobs[j].outcome = "complete"
         /\ jobs[j].raw.kind # "throw"
         /\ ~WellFormed(jobs[j].raw))
        => ValidFiles(jobs[j].files)

(***************************************************************************)
(* C4.  In the step in which a job broadcasts generation_complete, the     *)
(* stored project exists, has status "ready" and has at least one file.    *)
(***************************************************************************)
C4_ReadyOnComplete ==
    [][\A j \in 1..Len(jobs') :
          Ends(j, "complete") =>
              LET p == projects'[jobs'[j].subject] IN
              p.exists /\ p.status = "ready" /\ Len(p.files) >= 1]_vars

(***************************************************************************)
(* C5.  In the step in which a job broadcasts generation_error, the stored *)
(* project (one that existed when the job was admitted) has status "error" *)
(* and its files and previewUrl are those it had just before admission.    *)
(***************************************************************************)
C5_ErrorKeepsFiles ==
    [][\A j \in 1..Len(jobs') :
          (Ends(j, "error") /\ jobs'[j].pre.exists) =>
              LET p == projects'[jobs'[j].subject] IN
              /\ p.status = "error"
              /\ p.files = jobs'[j].pre.files
              /\ p.previewUrl = jobs'[j].pre.previewUrl]_vars

(***************************************************************************)
(* C6.  Every job broadcasts at most one terminal event, a job that has    *)
(* ended has broadcast exactly one (generation_complete or                 *)
(* generation_error, as its outcome says), and the terminal event is the   *)
(* last event of the job: no progress event follows it.                    *)
(***************************************************************************)
C6_OneTerminalEvent ==
    \A j \in JobIds :
        LET evs == jobs[j].events
            T == {i \in 1..Len(evs) : IsTerminal(evs[i])}
        IN  /\ Cardinality(T) <= 1
            /\ \A i \in T : i = Len(evs)
            /\ (jobs[j].pc = "done" <=> T # {})
            /\ \A i \in T :
                  evs[i].type = (IF jobs[j].outcome = "complete"
                                 THEN "generation_complete"
                                 ELSE "generation_error")
            /\ jobs[j].pc = "done" => jobs[j].outcome \in {"complete", "error"}

\* One job has ended successfully and another in error after some progress.
C6_Witness ==
    \E a, b \in JobIds :
        /\ jobs[a].outcome = "complete"
        /\ jobs[b].outcome = "error"
        /\ Percents(jobs[b].events) # <<>>

(***************************************************************************)
(* C7.  Every event broadcast for an id reaches each connection that was   *)
(* open and joined to the id at the broadcast exactly once, unchanged, and *)
(* a connection receives the events of an id in the order of broadcast.    *)
(***************************************************************************)
C7_DeliveredOnceInOrder ==
    /\ \A id \in Subjects : \A n \in 1..Len(published[id]) :
          \A c \in published[id][n].to :
              LET inbox == clients[c].inbox
                  hits == {i \in 1..Len(inbox) :
                              inbox[i].projectId = id /\ inbox[i].n = n}
              IN  /\ Cardinality(hits) = 1
                  /\ \A i \in hits : inbox[i].ev = published[id][n].ev
    /\ \A c \in Conns :
          LET inbox == clients[c].inbox IN
          \A a, b \in 1..Len(inbox) :
              (a < b /\ inbox[a].projectId = inbox[b].projectId)
                  => inbox[a].n < inbox[b].n

\* Both connections were joined when a job broadcast its terminal event, and
\* one of them has received a whole job, first broadcast to last.
C7_Witness ==
    \E id \in Subjects : \E n \in 1..Len(published[id]) :
        /\ published[id][n].to = Conns
        /\ IsTerminal(published[id][n].ev)
        /\ \E c \in Conns, j \in JobIds :
              jobs[j].pc = "done" /\ Received(c, j) = jobs[j].events

(***************************************************************************)
(* C8.  Once every job started for an id has reached its terminal state,   *)
(* complete or error, the next submission for the id is admitted and       *)
(* starts a new pipeline: no outcome leaves an id unable to be generated.  *)
(***************************************************************************)
C8_SlotFreeAfterEnd ==
    \A id \in Subjects :
        (/\ \E j \in JobIds : jobs[j].subject = id
         /\ InFlight(id) = {}
         /\ id \in ScopeSubjects(scope)
         /\ Len(jobs) < JobLimit(scope))
        => ENABLED AdmitsNew(id)

\* A second job was started for an id after the first one for it had
\* broadcast its terminal event.
C8_Witness ==
    \E id \in Subjects : \E a, b \in 1..Len(published[id]) :
        /\ a < b
        /\ IsTerminal(published[id][a].ev)
        /\ published[id][a].ev.job = 1
        /\ published[id][b].ev.type = "status_update"
        /\ published[id][b].ev.job = 2

(***************************************************************************)
(* C9.  The provider of a job is Azure whenever both the Azure key and the *)
(* Azure endpoint are set, whatever the Google keys; Google when Azure is  *)
(* not usable and a Google key is set; with neither, the job fails with    *)
(* "no provider configured" without a provider call.  Every provider call  *)
(* of a job goes to that one provider, also after a failure.               *)
(***************************************************************************)
C9_ProviderSelection ==
    \A j \in JobIds :
        LET job == jobs[j]
            azure == env.azureKey /\ env.azureEndpoint
            google == env.geminiKey \/ env.googleAiKey
        IN  /\ azure => job.provider = "azure"
            /\ (~azure /\ google) => job.provider = "google"
            /\ (~azure /\ ~google) =>
                  /\ job.provider = "none"
                  /\ job.outcome = "error"
                  /\ job.err = "NoProviderConfigured"
                  /\ job.calls = <<>>
            /\ \A i \in 1..Len(job.calls) : job.calls[i] = job.provider
            /\ Len(job.calls) <= 2

\* With Azure and Google both usable, a job has failed at an Azure call.
C9_Witness ==
    \E j \in JobIds :
        /\ env.azureKey /\ env.azureEndpoint /\ env.geminiKey
        /\ jobs[j].outcome = "error"
        /\ jobs[j].calls = <<"azure">>

(***************************************************************************)
(* C10.  When the file-generation call of a job (on a project that existed *)
(* at admission) is answered with a well-formed array of k >= 1 records,   *)
(* the job ends successfully, the stored files are exactly those k records *)
(* (type "file" where absent), the status is "ready" and the last progress *)
(* event is 100.                                                           *)
(***************************************************************************)
C10_WellFormedAccepted ==
    [][\A j \in 1..Len(jobs) :
          (/\ jobs[j].pc = "generating"
           /\ Steps(j)
           /\ WellFormed(jobs'[j].raw)
           /\ jobs[j].pre.exists)
          => LET p == projects'[jobs[j].subject]
                 q == Percents(jobs'[j].events)
             IN  /\ jobs'[j].outcome = "complete"
                 /\ p.status = "ready"
                 /\ p.files = OwnFiles(jobs'[j].raw)
                 /\ q # <<>> /\ q[Len(q)] = 100]_vars

(***************************************************************************)
(* C11.  When the file-generation call of a job (on a project that existed *)
(* at admission) is answered with a text that is not JSON, the job ends    *)
(* successfully, the stored files are the fallback set of exactly 5 files  *)
(* and the job broadcasts no generation_error.                             *)
(***************************************************************************)
C11_FallbackOfFive ==
    [][\A j \in 1..Len(jobs) :
          (/\ jobs[j].pc = "generating"
           /\ Steps(j)
           /\ NotJSON(jobs'[j].raw)
           /\ jobs[j].pre.exists)
          => /\ jobs'[j].outcome = "complete"
             /\ projects'[jobs[j].subject].status = "ready"
             /\ Len(projects'[jobs[j].subject].files) = 5
             /\ \A i \in 1..Len(jobs'[j].events) :
                   jobs'[j].events[i].type # "generation_error"]_vars

(***************************************************************************)
(* C12.  With no provider configured, a submission for a stored project    *)
(* (a generate request with a prompt, or a chat message of role "user")    *)
(* still starts a job, and that job fails at once with the "no provider    *)
(* configured" cause: it emits no progress event, its last broadcast is    *)
(* generation_error with that cause, the error message is appended, the    *)
(* stored status is "error" and files and previewUrl are unchanged.        *)
(***************************************************************************)
C12_NoProviderFails ==
    [][\A id \in Subjects :
          (/\ ~(env.azureKey /\ env.azureEndpoint)
           /\ ~(env.geminiKey \/ env.googleAiKey)
           /\ projects[id].exists
           /\ \/ POSTGenerate(id, "build a shop")
              \/ POSTMessage(id, "user", TRUE))
          => LET j == Len(jobs) + 1 IN
             /\ Len(jobs') = j
             /\ jobs'[j].subject = id
             /\ jobs'[j].pc = "done"
             /\ jobs'[j].outcome = "error"
             /\ jobs'[j].err = "NoProviderConfigured"
             /\ jobs'[j].calls = <<>>
             /\ Percents(jobs'[j].events) = <<>>
             /\ LET last == jobs'[j].events[Len(jobs'[j].events)] IN
                last.type = "generation_error" /\ last.error = "NoProviderConfigured"
             /\ LET m == messages'[Len(messages')] IN
                m.projectId = id /\ m.error = "NoProviderConfigured"
             /\ projects'[id].status = "error"
             /\ projects'[id].files = projects[id].files
             /\ projects'[id].previewUrl = projects[id].previewUrl]_vars

\* With no provider configured, a job on a stored project has failed.
C12_Witness ==
    \E j \in JobIds :
        /\ ~(env.azureKey /\ env.azureEndpoint)
        /\ ~(env.geminiKey \/ env.googleAiKey)
        /\ jobs[j].pre.exists
        /\ jobs[j].err = "NoProviderConfigured"
        /\ projects[jobs[j].subject].status = "error"

(***************************************************************************)
(* C13.  Events are not buffered: whatever a connection has received for   *)
(* an id was broadcast while the connection was open and joined to that    *)
(* id.  An event broadcast while no connection was joined reaches nobody,  *)
(* and a connection that joins in the middle of a job never receives an    *)
(* event of that job broadcast before it joined.                           *)
(***************************************************************************)
C13_NoBacklog ==
    \A c \in Conns :
        LET inbox == clients[c].inbox IN
        \A i \in 1..Len(inbox) :
            /\ inbox[i].n \in 1..Len(published[inbox[i].projectId])
            /\ c \in published[inbox[i].projectId][inbox[i].n].to

\* A connection joined in the middle of a job: it has received events of
\* the job, but not the job's first broadcast, which reached nobody.
C13_Witness ==
    \E c \in Conns, j \in JobIds :
        LET id == jobs[j].subject IN
        /\ Received(c, j) # <<>>
        /\ Received(c, j)[1] # jobs[j].events[1]
        /\ \E n \in 1..Len(published[id]) :
              /\ published[id][n].ev = jobs[j].events[1]
              /\ published[id][n].to = {}

(***************************************************************************)
(* C14.  A provider reply that is present but cannot be decoded into the   *)
(* expected shape never makes the job end in error, on either provider     *)
(* path: neither the step that handles such an analysis reply, nor the     *)
(* step that handles such a file reply, nor the step that handles a file   *)
(* reply after such an analysis reply ends the job with generation_error.  *)
(***************************************************************************)
C14_UndecodableNeverFails ==
    [][\A j \in 1..Len(jobs) :
          (\/ \E reply \in UndecodableAnalyses : AnalysisSettles(j, reply)
           \/ /\ jobs[j].pc = "generating"
              /\ Steps(j)
              /\ jobs'[j].raw.kind = "text"
              /\ \/ Undecodable(jobs'[j].raw)
                 \/ jobs[j].analysis.isNull
                 \/ jobs[j].analysis.projectName = NoVal)
          => jobs'[j].outcome # "error"]_vars

(***************************************************************************)
(* C15.  When a provider call of a job (on a project that existed at       *)
(* admission) fails, at the analyze step or at the generate-files step,    *)
(* the job ends in error in that step: status "error" is stored, an error  *)
(* message is appended, generation_error with the cause is the job's last  *)
(* broadcast, and the stored files are left as they were.                  *)
(***************************************************************************)
C15_ProviderFailureFails ==
    [][\A j \in 1..Len(jobs) :
          (/\ jobs[j].pre.exists
           /\ \/ AnalysisSettles(j, "throw")
              \/ FilesSettle(j, Throw))
          => LET id == jobs[j].subject
                 last == jobs'[j].events[Len(jobs'[j].events)]
             IN  /\ jobs'[j].outcome = "error"
                 /\ projects'[id].status = "error"
                 /\ messages' # messages
                 /\ messages'[Len(messages')].content = "error"
                 /\ last.type = "generation_error"
                 /\ last.error = jobs'[j].err
                 /\ projects'[id].files = projects[id].files]_vars

(***************************************************************************)
(* C16.  On every provider path, the progress events of a job that ended   *)
(* successfully carry exactly the percentages 10, 25, 40, 60, 80, 95, 100, *)
(* in that order.                                                          *)
(***************************************************************************)
C16_ExactPercents ==
    \A j \in JobIds :
        jobs[j].outcome = "complete"
            => Percents(jobs[j].events) = <<10, 25, 40, 60, 80, 95, 100>>

(***************************************************************************)
(* C19.  In every reachable state the stored files of every project have   *)
(* non-empty paths and no two of them share a path, whatever array the     *)
(* provider returned.                                                      *)
(***************************************************************************)
C19_StoredPathsUnique ==
    \A id \in Subjects :
        projects[id].exists =>
            /\ \A i \in 1..Len(projects[id].files) :
                  NonEmptyPath(projects[id].files[i])
            /\ DistinctPaths(projects[id].files)

(***************************************************************************)
(* C20.  When the file-generation call of a job (on a project that existed *)
(* at admission, after an analysis that decoded to an object) is answered  *)
(* with a well-formed file array wrapped in ```json fences, the job ends   *)
(* successfully and the stored files are the records of that array, on     *)
(* every provider path.                                                    *)
(***************************************************************************)
C20_FencesStripped ==
    [][\A j \in 1..Len(jobs) :
          (/\ jobs[j].pc = "generating"
           /\ Steps(j)
           /\ FencedWellFormed(jobs'[j].raw)
           /\ ~jobs[j].analysis.isNull
           /\ jobs[j].pre.exists)
          => /\ jobs'[j].outcome = "complete"
             /\ projects'[jobs[j].subject].files = OwnFiles(jobs'[j].raw)]_vars

(***************************************************************************)
(* C17.  In a job that ended successfully the terminal calls happen in     *)
(* this order: the write of the files with status "ready", the append of   *)
(* the completion message, the 100% progress broadcast, the                *)
(* generation_complete broadcast; so 100% is never broadcast before        *)
(* "ready" is stored.  And no job broadcasts generation_error after it has *)
(* broadcast 100%.                                                         *)
(***************************************************************************)
C17_TerminalOrder ==
    \A j \in JobIds :
        LET write == CallsAt(j, "updateProject", "ready", -1)
            append == CallsAt(j, "createMessage", "complete", 100)
            hundred == CallsAt(j, "broadcast", "generation_progress", 100)
            complete == CallsAt(j, "broadcast", "generation_complete", -1)
            failure == {i \in 1..Len(jobs[j].log) :
                           jobs[j].log[i].what = "generation_error"}
        IN  /\ jobs[j].outcome = "complete" =>
                  /\ write # {} /\ append # {} /\ hundred # {} /\ complete # {}
                  /\ \A w \in write, m \in append : w < m
                  /\ \A m \in append, h \in hundred : m < h
                  /\ \A h \in hundred, c \in complete : h < c
            /\ \A h \in hundred, f \in failure : f < h

C22_CompleteCarriesProject ==
    \A j \in JobIds :
        \A i \in 1..Len(jobs[j].events) :
            jobs[j].events[i].type = "generation_complete"
                => /\ jobs[j].events[i].project.exists
                   /\ jobs[j].events[i].project.status = "ready"
                   /\ jobs[j].events[i].project.files = jobs[j].files

(***************************************************************************)
(* C23.  An event broadcast for a project is delivered only to the open    *)
(* connections whose latest join_project named that project: whenever a    *)
(* connection is sent events, it is open and every event it is sent was    *)
(* broadcast for the one project it is joined to; so a connection that     *)
(* never joined, or whose latest join named another project, is sent       *)
(* nothing.                                                                *)
(***************************************************************************)
C23_OnlyToJoined ==
    [][\A c \in Conns :
          clients'[c].inbox # clients[c].inbox
          => /\ clients[c].state = "open"
             /\ Len(clients'[c].inbox) > Len(clients[c].inbox)
             /\ SubSeq(clients'[c].inbox, 1, Len(clients[c].inbox))
                    = clients[c].inbox
             /\ \A i \in (Len(clients[c].inbox) + 1)..Len(clients'[c].inbox) :
                   clients'[c].inbox[i].projectId = clients[c].projectId]_vars

\* A connection that was sent events of p1, then joined p2, and has missed
\* what was broadcast for p1 since; another open connection never joined.
C23_Witness ==
    \E c, d \in Conns :
        /\ clients[c].state = "open"
        /\ clients[c].projectId = "p2"
        /\ clients[c].inbox # <<>>
        /\ clients[c].inbox[Len(clients[c].inbox)].n < Len(published["p1"])
        /\ clients[d].state = "open"
        /\ clients[d].projectId = NoVal
        /\ clients[d].inbox = <<>>

(***************************************************************************)
(* C24.  A step of a job for one project changes neither the status, the   *)
(* files, the previewUrl nor the message log of any other project,         *)
(* whatever jobs run on other projects at the same time.                   *)
(***************************************************************************)
C24_OtherProjectsUntouched ==
    [][\A j \in 1..Len(jobs') :
          Steps(j) =>
             \A other \in Subjects \ {jobs'[j].subject} :
                /\ projects'[other] = projects[other]
                /\ MessagesOf(messages', other) = MessagesOf(messages, other)]_vars

\* Two jobs on different existing projects have run interleaved (the second
\* started between the start and the completion of the first) and each
\* project holds the files of its own job.
C24_Witness ==
    /\ Len(jobs) = 2
    /\ jobs[1].subject # jobs[2].subject
    /\ \A j \in {1, 2} :
          /\ jobs[j].pre.exists
          /\ jobs[j].outcome = "complete"
          /\ projects[jobs[j].subject].files = jobs[j].files
    /\ jobs[1].files # jobs[2].files
    /\ \E a, b, c \in 1..Len(messages) :
          /\ a < b /\ b < c
          /\ messages[a].projectId = jobs[1].subject /\ messages[a].content = "start"
          /\ messages[b].projectId = jobs[2].subject /\ messages[b].content = "start"
          /\ messages[c].projectId = jobs[1].subject /\ messages[c].content = "complete"

(***************************************************************************)
(* C25.  Every job that ends has appended exactly one start message        *)
(* (generationStep "analyzing", progress 0) and after it exactly one       *)
(* terminal message: the completion message (progress 100, with the files) *)
(* or the error message (with the cause), never both.  No step removes or  *)
(* rewrites a stored message.                                              *)
(***************************************************************************)
C25_StartThenOneTerminal ==
    [][/\ Len(messages') >= Len(messages)
       /\ SubSeq(messages', 1, Len(messages)) = messages
       /\ \A j \in 1..Len(jobs') :
             LET job == jobs'[j]
                 last == messages'[Len(messages')]
                 start == Call("createMessage", "start", 0)
                 complete == Call("createMessage", "complete", 100)
                 error == Call("createMessage", "error", -1)
             IN  /\ (Steps(j) /\ j > Len(jobs))
                    => \E i \in (Len(messages) + 1)..Len(messages') :
                          messages'[i] = Message(job.subject, "assistant", "start",
                                                 "analyzing", 0, <<>>, "")
                 /\ (Steps(j) /\ job.pc = "done")
                    => /\ Appends(job) \in {<<start, complete>>, <<start, error>>}
                       /\ last.projectId = job.subject
                       /\ last.role = "assistant"
                       /\ job.outcome = "complete"
                             => /\ Appends(job)[2] = complete
                                /\ last.generationStep = "complete"
                                /\ last.progress = 100
                                /\ last.files = job.files
                       /\ job.outcome # "complete"
                             => /\ Appends(job)[2] = error
                                /\ last.content = "error"
                                /\ last.error = job.err
                                /\ job.err # ""]_vars

\* Two jobs on one stored project have ended, one completed and one failed,
\* and the project's log holds their four messages.
C25_Witness ==
    /\ Len(jobs) = 2
    /\ jobs[1].subject = jobs[2].subject
    /\ jobs[1].pre.exists
    /\ {jobs[1].outcome, jobs[2].outcome} = {"complete", "error"}
    /\ Len(MessagesOf(messages, jobs[1].subject)) = 4

(***************************************************************************)
(* C26.  A POST /api/projects/:id/generate request whose prompt is missing *)
(* or empty is answered 400, starts no job, broadcasts nothing and leaves  *)
(* the projects and the messages as they were.                             *)
(***************************************************************************)
C26_EmptyPromptRejected ==
    [][\A id \in Subjects, prompt \in {NoVal, ""} :
          POSTGenerate(id, prompt)
          => /\ response' = Response("generate", id, 400, "Prompt is required")
             /\ jobs' = jobs
             /\ published' = published
             /\ clients' = clients
             /\ projects' = projects
             /\ messages' = messages]_vars

\* The request was answered 400 while a job of the project was running, and
\* the job is where it was.
C26_Witness ==
    /\ response = Response("generate", "p1", 400, "Prompt is required")
    /\ projects["p1"].exists
    /\ projects["p1"].status = "generating"
    /\ \E j \in JobIds : jobs[j].subject = "p1" /\ jobs[j].pc = "generating"

(***************************************************************************)
(* C27.  Posting a chat message starts a job if and only if the message is *)
(* stored with role "user".  A message with another role is stored and     *)
(* acknowledged and starts no job; a message that validation rejects is    *)
(* not stored and starts no job.                                           *)
(***************************************************************************)
C27_JobIffUserMessage ==
    [][\A id \in Subjects, role \in {"user", "assistant"}, valid \in BOOLEAN :
          POSTMessage(id, role, valid)
          => LET posted == Message(id, role, "prompt", NoVal, -1, <<>>, "")
                 ok == Response("messages", id, 200, "message")
             IN  /\ Len(jobs') = Len(jobs) + 1 <=> (valid /\ role = "user")
                 /\ Len(jobs') # Len(jobs) + 1 => jobs' = jobs /\ published' = published
                 /\ (valid /\ role = "user")
                       => /\ jobs'[Len(jobs')].subject = id
                          /\ Len(messages') > Len(messages)
                          /\ SubSeq(messages', 1, Len(messages) + 1)
                                = Append(messages, posted)
                          /\ response' = ok
                 /\ (valid /\ role # "user")
                       => messages' = Append(messages, posted) /\ response' = ok
                 /\ ~valid => messages' = messages /\ response'.status = 400]_vars

\* An assistant message was posted to a stored project: it is the last
\* message, it was acknowledged, and no job has been started.
C27_Witness ==
    /\ projects["p1"].exists
    /\ response = Response("messages", "p1", 200, "message")
    /\ messages # <<>>
    /\ messages[Len(messages)] = Message("p1", "assistant", "prompt", NoVal, -1,
                                         <<>>, "")
    /\ jobs = <<>>

(***************************************************************************)
(* C28.  No step of a job writes previewUrl, whether the job succeeds or   *)
(* fails.  previewUrl changes only by the compile request, which sets it   *)
(* to /preview/<id> for every stored project and leaves status and files   *)
(* as they were; so a previewUrl set before a job is still there after the *)
(* job has stored its files.                                               *)
(***************************************************************************)
C28_PreviewOnlyByCompile ==
    [][\A id \in Subjects :
          /\ (\E j \in 1..Len(jobs') : Steps(j))
                => projects'[id].previewUrl = projects[id].previewUrl
          /\ projects'[id].previewUrl # projects[id].previewUrl
                => /\ response' = Response("compile", id, 200, PreviewUrl(id))
                   /\ jobs' = jobs
          /\ (POSTCompile(id) /\ projects[id].exists)
                => /\ projects'[id].previewUrl = PreviewUrl(id)
                   /\ projects'[id].status = projects[id].status
                   /\ projects'[id].files = projects[id].files]_vars

\* A project compiled before its job was admitted: the job has stored its
\* files and the previewUrl is as the compile request left it.
C28_Witness ==
    \E j \in JobIds :
        /\ jobs[j].subject = "p1"
        /\ jobs[j].pre.previewUrl = PreviewUrl("p1")
        /\ jobs[j].outcome = "complete"
        /\ projects["p1"].files = jobs[j].files
        /\ projects["p1"].files # jobs[j].pre.files
        /\ projects["p1"].previewUrl = PreviewUrl("p1")

(***************************************************************************)
(* C29.  The request that starts a job is answered before the job makes    *)
(* its first call.  In every job the update to status "generating" comes   *)
(* before every broadcast; the first broadcast is status_update with       *)
(* status "generating", the second the start message, and every            *)
(* generation_progress broadcast comes after both.                         *)
(***************************************************************************)
C29_StartOrder ==
    [][\A j \in 1..Len(jobs') :
          Steps(j) =>
          LET job == jobs'[j]
              log == job.log
              evs == job.events
              answered == {i \in 1..Len(log) : log[i].op = "respond"}
              stored == LogAt(job, "updateProject", "generating", -1)
              status == LogAt(job, "broadcast", "status_update", -1)
              start == LogAt(job, "broadcast", "message", 0)
              sent == {i \in 1..Len(log) : log[i].op = "broadcast"}
          IN  /\ answered = {1}
              /\ stored = {2}
              /\ \A s \in stored, b \in sent : s < b
              /\ \A a \in status, b \in sent : a <= b
              /\ \A a \in start, b \in sent \ status : a <= b
              /\ Cardinality(status) = 1 /\ Cardinality(start) = 1
              /\ Len(evs) >= 2
              /\ evs[1].type = "status_update" /\ evs[1].status = "generating"
              /\ evs[2].type = "message" /\ evs[2].progress = 0
              /\ \A i \in 1..Len(evs) : IsProgress(evs[i]) => i > 2
              /\ j > Len(jobs) =>
                    /\ response' \in {Response(r, job.subject, 200, b) :
                                         r \in {"generate", "messages"},
                                         b \in {"Generation started", "message"}}
                    /\ (job.pre.exists /\ job.pc # "done")
                          => projects'[job.subject].status = "generating"]_vars

\* A job on a stored project was answered, has stored "generating", has
\* broadcast the status, the start message and progress, and is running.
C29_Witness ==
    \E j \in JobIds :
        /\ jobs[j].pre.exists
        /\ jobs[j].pc = "analyzing"
        /\ response.status = 200
        /\ response.route \in {"generate", "messages"}
        /\ Len(jobs[j].events) >= 3
        /\ IsProgress(jobs[j].events[3])

(***************************************************************************)
(* C30.  When the jobs of a stored project have all ended, also after      *)
(* running at the same time, the stored status is the one written by the   *)
(* job that ended last ("ready" if it completed, "error" if it failed) and *)
(* the stored files are the whole file set of the job that completed last, *)
(* or the files from before the jobs if none completed: never a mixture of *)
(* the file sets of two jobs.  The order in which the jobs ended is the    *)
(* order of their terminal messages.                                       *)
(***************************************************************************)
C30_LastWriterWins ==
    \A id \in Subjects :
        (/\ JobsOf(id) # {}
         /\ InFlight(id) = {}
         /\ \A j \in JobsOf(id) : jobs[j].pre.exists)
        => LET ends == Terminals(messages, id)
               done == Completions(messages, id)
               first == CHOOSE j \in JobsOf(id) : \A k \in JobsOf(id) : j <= k
           IN  /\ Len(ends) = Cardinality(JobsOf(id))
               /\ projects[id].status =
                     IF ends[Len(ends)].content = "complete" THEN "ready"
                     ELSE "error"
               /\ projects[id].files =
                     IF done # <<>> THEN done[Len(done)].files
                     ELSE jobs[first].pre.files
               /\ done # <<>>
                     => \E j \in JobsOf(id) :
                           /\ jobs[j].outcome = "complete"
                           /\ projects[id].files = jobs[j].files

\* Two jobs of one stored project ran at the same time and both completed
\* with different file sets; the one admitted second ended first, and the
\* project holds the files of the other.
C30_Witness ==
    /\ Len(jobs) = 2
    /\ jobs[1].subject = jobs[2].subject
    /\ jobs[1].pre.exists
    /\ jobs[1].outcome = "complete" /\ jobs[2].outcome = "complete"
    /\ jobs[1].files # jobs[2].files
    /\ LET ms == MessagesOf(messages, jobs[1].subject)
       IN  /\ Len(ms) = 4
           /\ ms[1].content = "start" /\ ms[2].content = "start"
           /\ ms[3].files = jobs[2].files
           /\ ms[4].files = jobs[1].files
    /\ projects[jobs[1].subject].files = jobs[1].files
    /\ projects[jobs[1].subject].status = "ready"

====
